---- MODULE Spec2Model ----
(***************************************************************************)
(* Model of the task/bookmark CRUD server: the tRPC router, the domain     *)
(* layer, the auth service and the storage service with the SQL statements *)
(* it sends to PostgreSQL.                                                  *)
(*                                                                         *)
(* Strings whose characters matter to the code (tokens, headers, ids,      *)
(* titles, URLs, search queries) are sequences of one-character strings.   *)
(* Strings that the code only compares for equality (user names, tags,     *)
(* error messages) are TLA+ strings.                                       *)
(***************************************************************************)
EXTENDS Integers, Sequences, FiniteSets, TLC

VARIABLES tasks, bookmarks, taskSeq, bookmarkSeq, now, req, boot

vars == <<tasks, bookmarks, taskSeq, bookmarkSeq, now, req, boot>>

db == <<tasks, bookmarks, taskSeq, bookmarkSeq, now>>

(***************************************************************************)
(* Bounds                                                                  *)
(***************************************************************************)
\* total number of INSERTs (tasks + bookmarks) a behaviour performs
MaxRows == 2

\* number of request slots
NReq == 2

Slots == 1..NReq

\* the slot of a client that sends one request at a time
Sequential == {r \in Slots : \A q \in Slots : r <= q}

\* the slots of two clients whose requests are in flight at the same time
Concurrent == {r \in Slots : r <= 2}

(***************************************************************************)
(* String helpers                                                          *)
(***************************************************************************)
Digits == <<"0", "1", "2", "3", "4", "5", "6", "7", "8", "9">>

DigitVal(c) == (CHOOSE i \in 1..10 : Digits[i] = c) - 1

IsDigit(c) == \E i \in 1..10 : Digits[i] = c

RECURSIVE NatToString(_)
\* Number.prototype.toString() of a non-negative integer
NatToString(n) ==
  IF n < 10 THEN <<Digits[n + 1]>>
  ELSE NatToString(n \div 10) \o <<Digits[(n % 10) + 1]>>

RECURSIVE DigitsToNat(_)
DigitsToNat(s) ==
  IF s = <<>> THEN 0
  ELSE 10 * DigitsToNat(SubSeq(s, 1, Len(s) - 1)) + DigitVal(s[Len(s)])

\* PostgreSQL's integer input of a text parameter: a non-empty run of digits
\* is accepted, anything else raises "invalid input syntax for type integer"
IsIntegerText(s) == Len(s) > 0 /\ \A i \in 1..Len(s) : IsDigit(s[i])

\* first index at which pat occurs in s, 0 when it does not occur
IndexOf(s, pat) ==
  LET hits == {i \in 1..(Len(s) - Len(pat) + 1) : SubSeq(s, i, i + Len(pat) - 1) = pat}
  IN IF hits = {} THEN 0 ELSE CHOOSE i \in hits : \A j \in hits : i <= j

\* String.prototype.replace(pat, '') with a string pattern: removes the first
\* occurrence of pat, wherever it is
ReplaceFirst(s, pat) ==
  LET i == IndexOf(s, pat)
  IN IF i = 0 THEN s
     ELSE SubSeq(s, 1, i - 1) \o SubSeq(s, i + Len(pat), Len(s))

Upper == <<"A", "B", "F", "O">>

LowerOf == <<"a", "b", "f", "o">>

\* case folding used by ILIKE
Lower(c) ==
  IF \E i \in 1..Len(Upper) : Upper[i] = c
  THEN LowerOf[CHOOSE i \in 1..Len(Upper) : Upper[i] = c]
  ELSE c

LowerStr(s) == [i \in 1..Len(s) |-> Lower(s[i])]

\* s contains q as a literal substring
Contains(s, q) == \E i \in 1..(Len(s) + 1) : i + Len(q) - 1 <= Len(s) /\ SubSeq(s, i, i + Len(q) - 1) = q

(***************************************************************************)
(* services/auth.ts                                                        *)
(***************************************************************************)
DemoToken == <<"d", "e", "m", "o", "-", "t", "o", "k", "e", "n">>

DemoUser == "demo-user"

ErrNoToken == "No token provided"

ErrInvalidToken == "Invalid token"

NoPrincipal == [ok |-> FALSE, username |-> "", error |-> ""]

\* authenticateUserToken without the comparison against the accepted literal
authenticateUserTokenAnyNonEmpty(token) ==
  IF token = <<>> THEN [ok |-> FALSE, username |-> "", error |-> ErrNoToken]
  ELSE [ok |-> TRUE, username |-> DemoUser, error |-> ""]

\* authenticateUserToken: the settled promise
authenticateUserToken(token) ==
  IF token = <<>> THEN [ok |-> FALSE, username |-> "", error |-> ErrNoToken]
  ELSE IF token = DemoToken THEN [ok |-> TRUE, username |-> DemoUser, error |-> ""]
  ELSE [ok |-> FALSE, username |-> "", error |-> ErrInvalidToken]

(***************************************************************************)
(* web/express.ts                                                          *)
(***************************************************************************)
BearerPrefix == <<"B", "e", "a", "r", "e", "r", " ">>

NoHeader == [present |-> FALSE, value |-> <<>>]

Header(v) == [present |-> TRUE, value |-> v]

\* createContext: req.headers.authorization?.replace('Bearer ', '') || ''
createContext(header) ==
  IF ~header.present THEN <<>>
  ELSE ReplaceFirst(header.value, BearerPrefix)

(***************************************************************************)
(* Settled promises and JavaScript values                                  *)
(*   shape "list"      an array of records (rows)                          *)
(*   shape "one"       a single record (rows[1])                           *)
(*   shape "undefined" / "null"   the absent values                        *)
(*   shape "OK"        the string 'OK'                                     *)
(***************************************************************************)
Resolved(shape, rows) == [ok |-> TRUE, shape |-> shape, rows |-> rows, error |-> ""]

Rejected(error) == [ok |-> FALSE, shape |-> "error", rows |-> <<>>, error |-> error]

Pending == [ok |-> FALSE, shape |-> "pending", rows |-> <<>>, error |-> ""]

ErrNoTask == "No task found with id"

\* PostgreSQL 42601, raised when the statement text does not parse
ErrSyntax == "syntax error at or near WHERE"

\* PostgreSQL 22P02, raised when a text parameter bound to an integer column
\* is not an integer
ErrInvalidInt == "invalid input syntax for type integer"

\* zod's rejection of an input that does not match the declared shape
ErrValidation == "BAD_REQUEST"

IsUnauthenticated(e) == e \in {ErrNoToken, ErrInvalidToken}

IsNotFound(e) == e = ErrNoTask

(***************************************************************************)
(* web/trpcRouter.ts                                                       *)
(***************************************************************************)
TaskProcs == {"allTasks", "taskById", "createTask", "updateTask", "deleteTask"}

BookmarkProcs == {"allBookmarks", "bookmarkById", "createBookmark", "updateBookmark", "deleteBookmark"}

Procs == TaskProcs \cup BookmarkProcs

Queries == {"allTasks", "taskById", "allBookmarks", "bookmarkById"}

Mutations == Procs \ Queries

\* the keys of the z.object each procedure declares
Required(proc) ==
  CASE proc = "allTasks" -> {}
    [] proc = "taskById" -> {"id"}
    [] proc = "createTask" -> {"title", "description"}
    [] proc = "updateTask" -> {"id"}
    [] proc = "deleteTask" -> {"id"}
    [] proc = "allBookmarks" -> {}
    [] proc = "bookmarkById" -> {"id"}
    [] proc = "createBookmark" -> {"title", "url", "tags"}
    [] proc = "updateBookmark" -> {"id", "title", "url", "tags"}
    [] proc = "deleteBookmark" -> {"id"}

Optional(proc) ==
  CASE proc = "updateTask" -> {"title", "description", "completed"}
    [] proc = "allBookmarks" -> {"tag", "query"}
    [] OTHER -> {}

\* a procedure declared without .input(), so that nothing is validated
ZodAcceptsAnything(proc, raw) == TRUE

\* z.object(...).parse: fails when a required key is missing, and strips
\* every key the shape does not declare
ZodAccepts(proc, raw) == Required(proc) \subseteq DOMAIN raw

ZodParse(proc, raw) ==
  [k \in (DOMAIN raw) \cap (Required(proc) \cup Optional(proc)) |-> raw[k]]

\* resolvers that return the domain's promise as it is
RouterResponseEntity(proc, res) == res

\* mutation resolvers that answer 'OK' whatever the domain's promise settled with
RouterResponseCatch(proc, res) ==
  IF proc \in Mutations THEN Resolved("OK", <<>>) ELSE res

\* what the procedure's resolver makes of the domain's settled promise:
\* queries return it, mutations chain .then(() => 'OK')
RouterResponse(proc, res) ==
  IF proc \in Mutations /\ res.ok THEN Resolved("OK", <<>>) ELSE res

(***************************************************************************)
(* services/db.ts: row mapping                                             *)
(***************************************************************************)
\* a row mapping that misses the description column
mapToExternalNoDescription(row) ==
  [id |-> NatToString(row.id), title |-> row.title, description |-> <<>>,
   completed |-> row.completed, createdBy |-> row.created_by,
   createdAt |-> [iso |-> row.created_at]]

mapToExternal(row) ==
  [id |-> NatToString(row.id), title |-> row.title, description |-> row.description,
   completed |-> row.completed, createdBy |-> row.created_by,
   createdAt |-> [iso |-> row.created_at]]

mapBookmark(row) ==
  [id |-> NatToString(row.id), title |-> row.title, url |-> row.url, tags |-> row.tags,
   createdAt |-> row.created_at, createdBy |-> row.created_by]

\* the sequences a SELECT ... ORDER BY created_at DESC can return for a set of
\* rows: every arrangement in which created_at never increases
OrderByCreatedAtDesc(rows) ==
  {s \in [1..Cardinality(rows) -> rows] :
     /\ \A i, j \in DOMAIN s : i /= j => s[i] /= s[j]
     /\ \A i, j \in DOMAIN s : i < j => s[i].created_at >= s[j].created_at}

(***************************************************************************)
(* domain/taskDomain.ts, domain/bookmarksDomain.ts: the arguments a domain *)
(* function hands to the storage function of the same name once the token  *)
(* is authenticated                                                        *)
(***************************************************************************)
Restrict(f, keys) == [k \in (DOMAIN f) \cap keys |-> f[k]]

\* updateTask building its updates with `completed ? { completed } : {}`
DomainArgsTruthy(proc, input, username) ==
  CASE proc = "updateTask" ->
         [id |-> input.id,
          updates |-> Restrict(input, {"title", "description"}
                                        \cup (IF "completed" \in DOMAIN input /\ input.completed
                                              THEN {"completed"} ELSE {}))]
    [] proc = "deleteTask" -> [id |-> input.id]
    [] proc = "taskById" -> [id |-> input.id]
    [] proc = "createTask" ->
         [title |-> input.title, description |-> input.description, createdBy |-> username]
    [] OTHER -> Restrict(input, {})

\* create functions that hand the storage a fixed name instead of user.username
DomainArgsUnstamped(proc, input, username) ==
  CASE proc = "createTask" ->
         [title |-> input.title, description |-> input.description, createdBy |-> "anonymous"]
    [] proc = "createBookmark" ->
         [title |-> input.title, url |-> input.url, tags |-> input.tags, username |-> "anonymous"]
    [] proc \in {"allTasks", "allBookmarks"} -> [username |-> username]
    [] OTHER -> [id |-> input.id, username |-> username, updates |-> Restrict(input, {}),
                 title |-> <<>>, url |-> <<>>, tags |-> <<>>]

DomainArgs(proc, input, username) ==
  CASE proc = "allTasks" -> Restrict(input, {})
    [] proc = "taskById" -> [id |-> input.id]
    [] proc = "createTask" ->
         [title |-> input.title, description |-> input.description, createdBy |-> username]
    [] proc = "updateTask" ->
         [id |-> input.id, updates |-> Restrict(input, {"title", "description", "completed"})]
    [] proc = "deleteTask" -> [id |-> input.id]
    [] proc = "allBookmarks" ->
         [k \in {"username"} \cup ((DOMAIN input) \cap {"tag", "query"}) |->
            IF k = "username" THEN username ELSE input[k]]
    [] proc = "bookmarkById" -> [id |-> input.id, username |-> username]
    [] proc = "createBookmark" ->
         [title |-> input.title, url |-> input.url, tags |-> input.tags, username |-> username]
    [] proc = "updateBookmark" ->
         [id |-> input.id, title |-> input.title, url |-> input.url, tags |-> input.tags,
          username |-> username]
    [] proc = "deleteBookmark" -> [id |-> input.id, username |-> username]

(***************************************************************************)
(* Request slots                                                           *)
(*   pc "idle"      no request                                             *)
(*   pc "received"  the resolver called the domain function, which awaits  *)
(*                  authenticateUserToken                                  *)
(*   pc "sent"      the storage function called pool.query: one statement  *)
(*                  is in flight                                           *)
(*   pc "done"      the call settled: result is the storage/domain         *)
(*                  promise, response what the procedure returns           *)
(***************************************************************************)
EmptyArgs == Restrict([id |-> <<>>], {})

IdleReq ==
  [pc |-> "idle", via |-> "none", proc |-> "none", header |-> NoHeader, raw |-> EmptyArgs,
   token |-> <<>>, principal |-> NoPrincipal, args |-> EmptyArgs, issuedAt |-> 0,
   stmts |-> 0, result |-> Pending, response |-> Pending]

\* the call in slot r settles with the storage promise res
Settle(r, res) ==
  /\ req' = [req EXCEPT ![r].pc = "done", ![r].result = res,
                        ![r].response = IF req[r].via = "rpc"
                                        THEN RouterResponse(req[r].proc, res) ELSE Pending]
  /\ UNCHANGED boot

Sent(r, proc) == req[r].pc = "sent" /\ req[r].proc = proc

\* rows of a table whose id equals the integer a text parameter denotes
RowsWithId(table, idText) == {row \in table : row.id = DigitsToNat(idText)}

(***************************************************************************)
(* services/db.ts: tasks                                                   *)
(***************************************************************************)
\* a listing with WHERE created_by = the caller, as bookmarks have it
getAllTasksOwnOnly(r) ==
  /\ Sent(r, "allTasks")
  /\ \E s \in OrderByCreatedAtDesc({row \in tasks : row.created_by = req[r].principal.username}) :
       Settle(r, Resolved("list", [i \in DOMAIN s |-> mapToExternal(s[i])]))
  /\ UNCHANGED db

\* SELECT * FROM tasks ORDER BY created_at DESC
getAllTasks(r) ==
  /\ Sent(r, "allTasks")
  /\ \E s \in OrderByCreatedAtDesc(tasks) : Settle(r, Resolved("list", [i \in DOMAIN s |-> mapToExternal(s[i])]))
  /\ UNCHANGED db

\* the promise getTaskById(id) settles with on a tasks table
SelectTaskById(table, id) ==
  LET rows == RowsWithId(table, id)
  IN IF ~IsIntegerText(id) THEN Rejected(ErrInvalidInt)
     ELSE IF rows /= {} THEN Resolved("one", <<mapToExternal(CHOOSE row \in rows : TRUE)>>)
     ELSE Resolved("undefined", <<>>)

\* a fetch written as DELETE FROM tasks WHERE id = $1 RETURNING *
getTaskByIdDeletes(r) ==
  /\ Sent(r, "taskById")
  /\ Settle(r, SelectTaskById(tasks, req[r].args.id))
  /\ tasks' = tasks \ RowsWithId(tasks, req[r].args.id)
  /\ UNCHANGED <<bookmarks, taskSeq, bookmarkSeq, now>>

\* SELECT * FROM tasks WHERE id = $1
getTaskById(r) ==
  /\ Sent(r, "taskById")
  /\ Settle(r, SelectTaskById(tasks, req[r].args.id))
  /\ UNCHANGED db

\* createTask binding title and description to each other's placeholder
createTaskSwapped(r) ==
  /\ Sent(r, "createTask")
  /\ LET a == req[r].args
         row == [id |-> taskSeq + 1, title |-> a.description, description |-> a.title,
                 completed |-> FALSE, created_by |-> a.createdBy, created_at |-> req[r].issuedAt]
     IN /\ tasks' = tasks \cup {row}
        /\ taskSeq' = taskSeq + 1
        /\ Settle(r, Resolved("one", <<mapToExternal(row)>>))
  /\ UNCHANGED <<bookmarks, bookmarkSeq, now>>

\* an INSERT that numbers the row itself, one more than the rows there are
createTaskCountsRows(r) ==
  /\ Sent(r, "createTask")
  /\ LET a == req[r].args
         row == [id |-> Cardinality(tasks) + 1, title |-> a.title, description |-> a.description,
                 completed |-> FALSE, created_by |-> a.createdBy, created_at |-> req[r].issuedAt]
     IN /\ tasks' = tasks \cup {row}
        /\ taskSeq' = taskSeq + 1
        /\ Settle(r, Resolved("one", <<mapToExternal(row)>>))
  /\ UNCHANGED <<bookmarks, bookmarkSeq, now>>

\* INSERT INTO tasks (title, description, created_by, created_at)
\*   VALUES ($1, $2, $3, $4) RETURNING *
createTask(r) ==
  /\ Sent(r, "createTask")
  /\ LET a == req[r].args
         row == [id |-> taskSeq + 1, title |-> a.title, description |-> a.description,
                 completed |-> FALSE, created_by |-> a.createdBy, created_at |-> req[r].issuedAt]
     IN /\ tasks' = tasks \cup {row}
        /\ taskSeq' = taskSeq + 1
        /\ Settle(r, Resolved("one", <<mapToExternal(row)>>))
  /\ UNCHANGED <<bookmarks, bookmarkSeq, now>>

\* the SET clause and the bound values updateTask builds: fields holds, for
\* each assignment, the column and the number of its placeholder
UpdateTaskStatement(id, updates) ==
  LET f1 == IF "title" \in DOMAIN updates THEN <<[col |-> "title", param |-> 1]>> ELSE <<>>
      v1 == IF "title" \in DOMAIN updates THEN <<updates.title>> ELSE <<>>
      i1 == 1 + Len(f1)
      f2 == IF "description" \in DOMAIN updates
            THEN f1 \o <<[col |-> "description", param |-> i1]>> ELSE f1
      v2 == IF "description" \in DOMAIN updates THEN v1 \o <<updates.description>> ELSE v1
      i2 == 1 + Len(f2)
      f3 == IF "completed" \in DOMAIN updates
            THEN f2 \o <<[col |-> "completed", param |-> i2]>> ELSE f2
      v3 == IF "completed" \in DOMAIN updates THEN v2 \o <<updates.completed>> ELSE v2
      i3 == 1 + Len(f3)
  IN [fields |-> f3, values |-> v3 \o <<id>>, idParam |-> i3]

RECURSIVE ApplySet(_, _, _)
\* a row after the assignments of a SET clause
ApplySet(row, fields, values) ==
  IF fields = <<>> THEN row
  ELSE ApplySet([row EXCEPT ![Head(fields).col] = values[Head(fields).param]], Tail(fields), values)

\* an update that writes all three columns, a field not supplied as its
\* column default
updateTaskWritesAll(r) ==
  /\ Sent(r, "updateTask")
  /\ LET u == req[r].args.updates
         id == req[r].args.id
         hit == RowsWithId(tasks, id)
         Set(row) == [row EXCEPT
                        !.title = IF "title" \in DOMAIN u THEN u.title ELSE <<>>,
                        !.description = IF "description" \in DOMAIN u THEN u.description ELSE <<>>,
                        !.completed = IF "completed" \in DOMAIN u THEN u.completed ELSE FALSE]
     IN IF ~IsIntegerText(id) THEN Settle(r, Rejected(ErrInvalidInt)) /\ UNCHANGED tasks
        ELSE /\ tasks' = (tasks \ hit) \cup {Set(row) : row \in hit}
             /\ IF Cardinality(hit) > 0 THEN Settle(r, Resolved("undefined", <<>>))
                ELSE Settle(r, Rejected(ErrNoTask))
  /\ UNCHANGED <<bookmarks, taskSeq, bookmarkSeq, now>>

\* UPDATE tasks SET <fields> WHERE id = $idx
updateTask(r) ==
  /\ Sent(r, "updateTask")
  /\ LET st == UpdateTaskStatement(req[r].args.id, req[r].args.updates)
         id == st.values[st.idParam]
         hit == RowsWithId(tasks, id)
     IN IF st.fields = <<>> THEN Settle(r, Rejected(ErrSyntax)) /\ UNCHANGED tasks
        ELSE IF ~IsIntegerText(id) THEN Settle(r, Rejected(ErrInvalidInt)) /\ UNCHANGED tasks
        ELSE /\ tasks' = (tasks \ hit) \cup {ApplySet(row, st.fields, st.values) : row \in hit}
             /\ IF Cardinality(hit) > 0 THEN Settle(r, Resolved("undefined", <<>>))
                ELSE Settle(r, Rejected(ErrNoTask))
  /\ UNCHANGED <<bookmarks, taskSeq, bookmarkSeq, now>>

\* a delete that does not look at rowCount, as deleteBookmark does not
deleteTaskIgnoresCount(r) ==
  /\ Sent(r, "deleteTask")
  /\ LET id == req[r].args.id
     IN IF ~IsIntegerText(id) THEN Settle(r, Rejected(ErrInvalidInt)) /\ UNCHANGED tasks
        ELSE /\ tasks' = tasks \ RowsWithId(tasks, id)
             /\ Settle(r, Resolved("undefined", <<>>))
  /\ UNCHANGED <<bookmarks, taskSeq, bookmarkSeq, now>>

\* DELETE FROM tasks WHERE id = $1
deleteTask(r) ==
  /\ Sent(r, "deleteTask")
  /\ LET id == req[r].args.id
         hit == RowsWithId(tasks, id)
     IN IF ~IsIntegerText(id) THEN Settle(r, Rejected(ErrInvalidInt)) /\ UNCHANGED tasks
        ELSE /\ tasks' = tasks \ hit
             /\ IF Cardinality(hit) > 0 THEN Settle(r, Resolved("undefined", <<>>))
                ELSE Settle(r, Rejected(ErrNoTask))
  /\ UNCHANGED <<bookmarks, taskSeq, bookmarkSeq, now>>

(***************************************************************************)
(* services/db.ts: bookmarks                                               *)
(***************************************************************************)
RECURSIVE LikeMatch(_, _)
\* PostgreSQL's s LIKE p for patterns without an escape character:
\* % matches any run of characters, _ matches any one character
LikeMatch(s, p) ==
  IF p = <<>> THEN s = <<>>
  ELSE IF Head(p) = "%" THEN LikeMatch(s, Tail(p)) \/ (s /= <<>> /\ LikeMatch(Tail(s), p))
  ELSE IF Head(p) = "_" THEN s /= <<>> /\ LikeMatch(Tail(s), Tail(p))
  ELSE s /= <<>> /\ Head(s) = Head(p) /\ LikeMatch(Tail(s), Tail(p))

\* s ILIKE p
ILike(s, p) == LikeMatch(LowerStr(s), LowerStr(p))

\* a tag test that looks at the first tag only
AnyTagFirst(t, tags) == tags /= <<>> /\ tags[1] = t

\* $n = ANY(tags)
AnyTag(t, tags) == \E i \in DOMAIN tags : tags[i] = t

\* a statement whose query condition is assigned to the SQL text in place of
\* being appended, so that it replaces the tag condition
AllBookmarksStatementQueryOverwrites(a) ==
  LET c0 == <<[kind |-> "owner", param |-> 1]>>
      p0 == <<a.username>>
      hasTag == "tag" \in DOMAIN a /\ a.tag /= ""
      c1 == IF hasTag THEN c0 \o <<[kind |-> "tag", param |-> 2]>> ELSE c0
      p1 == IF hasTag THEN p0 \o <<a.tag>> ELSE p0
      hasQuery == "query" \in DOMAIN a /\ a.query /= <<>>
      paramIndex == Len(p1) + 1
      c2 == IF hasQuery THEN c0 \o <<[kind |-> "ilike", param |-> paramIndex]>> ELSE c1
      p2 == IF hasQuery THEN p1 \o <<(<<"%">> \o a.query \o <<"%">>)>> ELSE p1
  IN [conds |-> c2, params |-> p2]

\* the WHERE clause and the bound values getAllBookmarks builds
AllBookmarksStatement(a) ==
  LET c0 == <<[kind |-> "owner", param |-> 1]>>
      p0 == <<a.username>>
      hasTag == "tag" \in DOMAIN a /\ a.tag /= ""
      c1 == IF hasTag THEN c0 \o <<[kind |-> "tag", param |-> 2]>> ELSE c0
      p1 == IF hasTag THEN p0 \o <<a.tag>> ELSE p0
      hasQuery == "query" \in DOMAIN a /\ a.query /= <<>>
      paramIndex == Len(p1) + 1
      c2 == IF hasQuery THEN c1 \o <<[kind |-> "ilike", param |-> paramIndex]>> ELSE c1
      p2 == IF hasQuery THEN p1 \o <<(<<"%">> \o a.query \o <<"%">>)>> ELSE p1
  IN [conds |-> c2, params |-> p2]

\* a row satisfies every condition of the WHERE clause
Satisfies(row, st) ==
  \A i \in DOMAIN st.conds :
    LET c == st.conds[i]
        v == st.params[c.param]
    IN CASE c.kind = "owner" -> row.created_by = v
         [] c.kind = "tag" -> AnyTag(v, row.tags)
         [] c.kind = "ilike" -> ILike(row.title, v) \/ ILike(row.url, v)

\* SELECT * FROM bookmarks WHERE created_by = $1 [AND $2 = ANY(tags)]
\*   [AND (title ILIKE $n OR url ILIKE $n)] ORDER BY created_at DESC
getAllBookmarks(r) ==
  /\ Sent(r, "allBookmarks")
  /\ LET st == AllBookmarksStatement(req[r].args)
         hit == {row \in bookmarks : Satisfies(row, st)}
     IN \E s \in OrderByCreatedAtDesc(hit) : Settle(r, Resolved("list", [i \in DOMAIN s |-> mapBookmark(s[i])]))
  /\ UNCHANGED db

\* the WHERE clause without its created_by condition
OwnedWithIdAnyOwner(a) == RowsWithId(bookmarks, a.id)

\* rows a statement with WHERE id = $n AND created_by = $m selects
OwnedWithId(a) == {row \in RowsWithId(bookmarks, a.id) : row.created_by = a.username}

\* the promise getBookmarkById(a.id, a.username) settles with
SelectBookmarkById(a) ==
  LET rows == OwnedWithId(a)
  IN IF ~IsIntegerText(a.id) THEN Rejected(ErrInvalidInt)
     ELSE IF rows /= {} THEN Resolved("one", <<mapBookmark(CHOOSE row \in rows : TRUE)>>)
     ELSE Resolved("null", <<>>)

\* SELECT * FROM bookmarks WHERE id = $1 AND created_by = $2
getBookmarkById(r) ==
  /\ Sent(r, "bookmarkById")
  /\ Settle(r, SelectBookmarkById(req[r].args))
  /\ UNCHANGED db

\* an INSERT that binds a fixed owner in place of the caller's name
createBookmarkUnowned(r) ==
  /\ Sent(r, "createBookmark")
  /\ \E t \in {now, now + 1} :
       LET a == req[r].args
           row == [id |-> bookmarkSeq + 1, title |-> a.title, url |-> a.url, tags |-> a.tags,
                   created_at |-> t, created_by |-> "anonymous"]
       IN /\ bookmarks' = bookmarks \cup {row}
          /\ bookmarkSeq' = bookmarkSeq + 1
          /\ now' = t
          /\ Settle(r, Resolved("one", <<mapBookmark(row)>>))
  /\ UNCHANGED <<tasks, taskSeq>>

\* INSERT INTO bookmarks (title, url, tags, created_by) VALUES ($1, $2, $3, $4)
\*   RETURNING *; created_at takes its default NOW()
createBookmark(r) ==
  /\ Sent(r, "createBookmark")
  /\ \E t \in {now, now + 1} :
       LET a == req[r].args
           row == [id |-> bookmarkSeq + 1, title |-> a.title, url |-> a.url, tags |-> a.tags,
                   created_at |-> t, created_by |-> a.username]
       IN /\ bookmarks' = bookmarks \cup {row}
          /\ bookmarkSeq' = bookmarkSeq + 1
          /\ now' = t
          /\ Settle(r, Resolved("one", <<mapBookmark(row)>>))
  /\ UNCHANGED <<tasks, taskSeq>>

\* an update with WHERE id = $1 alone that also sets created_by = $5
updateBookmarkTakesOver(r) ==
  /\ Sent(r, "updateBookmark")
  /\ LET a == req[r].args
         hit == RowsWithId(bookmarks, a.id)
         Set(row) == [row EXCEPT !.title = a.title, !.url = a.url, !.tags = a.tags,
                                 !.created_by = a.username]
     IN IF ~IsIntegerText(a.id) THEN Settle(r, Rejected(ErrInvalidInt)) /\ UNCHANGED bookmarks
        ELSE /\ bookmarks' = (bookmarks \ hit) \cup {Set(row) : row \in hit}
             /\ IF hit /= {}
                THEN Settle(r, Resolved("one", <<mapBookmark(Set(CHOOSE row \in hit : TRUE))>>))
                ELSE Settle(r, Resolved("null", <<>>))
  /\ UNCHANGED <<tasks, taskSeq, bookmarkSeq, now>>

\* UPDATE bookmarks SET title = $1, url = $2, tags = $3
\*   WHERE id = $4 AND created_by = $5 RETURNING *
updateBookmark(r) ==
  /\ Sent(r, "updateBookmark")
  /\ LET a == req[r].args
         hit == OwnedWithId(a)
         Set(row) == [row EXCEPT !.title = a.title, !.url = a.url, !.tags = a.tags]
     IN IF ~IsIntegerText(a.id) THEN Settle(r, Rejected(ErrInvalidInt)) /\ UNCHANGED bookmarks
        ELSE /\ bookmarks' = (bookmarks \ hit) \cup {Set(row) : row \in hit}
             /\ IF hit /= {}
                THEN Settle(r, Resolved("one", <<mapBookmark(Set(CHOOSE row \in hit : TRUE))>>))
                ELSE Settle(r, Resolved("null", <<>>))
  /\ UNCHANGED <<tasks, taskSeq, bookmarkSeq, now>>

\* DELETE FROM bookmarks WHERE id = $1 AND created_by = $2
deleteBookmark(r) ==
  /\ Sent(r, "deleteBookmark")
  /\ LET a == req[r].args
     IN IF ~IsIntegerText(a.id) THEN Settle(r, Rejected(ErrInvalidInt)) /\ UNCHANGED bookmarks
        ELSE /\ bookmarks' = bookmarks \ OwnedWithId(a)
             /\ Settle(r, Resolved("undefined", <<>>))
  /\ UNCHANGED <<tasks, taskSeq, bookmarkSeq, now>>

(***************************************************************************)
(* Inputs                                                                  *)
(***************************************************************************)
IdTexts == {NatToString(i) : i \in 1..MaxRows} \cup {<<"x">>}

TaskTitles == {<<"a">>, <<"b">>}

Descriptions == {<<"d">>}

\* values updateTask is called with
NewTitles == {<<"b">>}

NewDescriptions == {<<"e">>}

BookmarkTitles == {<<"F", "o">>, <<"a", "b">>}

Urls == {<<"f", "o", "o">>, <<"b">>}

TagLists == {<<>>, <<"x", "y">>}

TagFilters == {"", "y", "z"}

QueryTexts == {<<>>, <<"f", "O">>, <<"b">>, <<"_">>}

SuppliedOwners == {"mallory"}

\* values of an undeclared token key sent in the input
SuppliedTokens == {DemoToken}

Usernames == {DemoUser, "other-user"}

Headers ==
  {NoHeader, Header(BearerPrefix \o DemoToken), Header(BearerPrefix \o <<"d", "e", "m", "o">>)}

\* the ways to supply, or not to supply, key k with a value of S
Opt(k, S) == {EmptyArgs} \cup {k :> v : v \in S}

\* bodies that satisfy the procedure's declared shape
WellFormed(proc) ==
  CASE proc = "allTasks" -> {EmptyArgs}
    [] proc \in {"taskById", "deleteTask", "bookmarkById", "deleteBookmark"} ->
         {[id |-> i] : i \in IdTexts}
    [] proc = "createTask" ->
         {[title |-> t, description |-> d] : t \in TaskTitles, d \in Descriptions}
    [] proc = "updateTask" ->
         {[id |-> i] @@ t @@ d @@ c :
            i \in IdTexts, t \in Opt("title", NewTitles),
            d \in Opt("description", NewDescriptions), c \in Opt("completed", BOOLEAN)}
    [] proc = "allBookmarks" ->
         {t @@ q : t \in Opt("tag", TagFilters), q \in Opt("query", QueryTexts)}
    [] proc = "createBookmark" ->
         {[title |-> t, url |-> u, tags |-> g] :
            t \in BookmarkTitles, u \in Urls, g \in TagLists}
    [] proc = "updateBookmark" ->
         {[id |-> i, title |-> t, url |-> u, tags |-> g] :
            i \in IdTexts, t \in BookmarkTitles, u \in Urls, g \in TagLists}

\* one well-formed body per procedure and id
Sample(proc) ==
  CASE proc = "allTasks" -> {EmptyArgs}
    [] proc \in {"taskById", "deleteTask", "bookmarkById", "deleteBookmark"} ->
         {[id |-> i] : i \in IdTexts}
    [] proc = "createTask" -> {[title |-> <<"a">>, description |-> <<"d">>]}
    [] proc = "updateTask" -> {[id |-> i, completed |-> TRUE] : i \in IdTexts}
    [] proc = "allBookmarks" -> {EmptyArgs}
    [] proc = "createBookmark" -> {[title |-> <<"a", "b">>, url |-> <<"b">>, tags |-> <<>>]}
    [] proc = "updateBookmark" ->
         {[id |-> i, title |-> <<"F", "o">>, url |-> <<"b">>, tags |-> <<>>] : i \in IdTexts}

\* the input sets as functions of the procedure
AllBodies == [proc \in Procs |-> WellFormed(proc)]

SampleBodies == [proc \in Procs |-> Sample(proc)]

\* bodies a client can send: the well-formed ones of W, possibly with an owner
\* key the shape does not declare, and one that lacks the required keys
Bodies(proc, W) ==
  W[proc]
    \cup (IF proc \in {"createTask", "createBookmark"}
          THEN {w @@ o @@ t : w \in W[proc], o \in Opt("owner", SuppliedOwners),
                                t \in Opt("token", SuppliedTokens)}
          ELSE {})
    \cup (IF Required(proc) /= {} THEN {EmptyArgs} ELSE {})

(***************************************************************************)
(* Startup: start() awaits initDomain(), which awaits initDbSvc(), and     *)
(* then calls initExpress(). boot.stmts counts the statements of initDbSvc *)
(* this process has completed, boot.schema holds the tables and indexes    *)
(* the database has, boot.listening tells whether app.listen was called.   *)
(***************************************************************************)
\* the objects initDbSvc creates, in the order of its statements
SchemaObjects ==
  <<"tasks", "bookmarks", "idx_tasks_created_at", "idx_bookmarks_created_by",
    "idx_bookmarks_tags">>

NotStarted == [stmts |-> 0, listening |-> FALSE, schema |-> {}]

Started ==
  [stmts |-> Len(SchemaObjects), listening |-> TRUE,
   schema |-> {SchemaObjects[i] : i \in DOMAIN SchemaObjects}]

\* the next CREATE ... IF NOT EXISTS of initDbSvc: an object that exists is
\* left as it is, a table that does not is created without rows
InitDbStep ==
  /\ boot.stmts < Len(SchemaObjects)
  /\ LET object == SchemaObjects[boot.stmts + 1]
         isNew == object \notin boot.schema
     IN /\ boot' = [boot EXCEPT !.stmts = boot.stmts + 1, !.schema = boot.schema \cup {object}]
        /\ IF isNew /\ object = "tasks"
           THEN tasks' = {} /\ taskSeq' = 0
           ELSE UNCHANGED <<tasks, taskSeq>>
        /\ IF isNew /\ object = "bookmarks"
           THEN bookmarks' = {} /\ bookmarkSeq' = 0
           ELSE UNCHANGED <<bookmarks, bookmarkSeq>>
  /\ UNCHANGED <<now, req>>

\* a start() that calls initExpress without awaiting initDomain
ListenNotAwaited ==
  /\ ~boot.listening
  /\ boot' = [boot EXCEPT !.listening = TRUE]
  /\ UNCHANGED <<db, req>>

\* initExpress: app.listen, reached once initDomain has resolved
Listen ==
  /\ ~boot.listening
  /\ boot.stmts = Len(SchemaObjects)
  /\ boot' = [boot EXCEPT !.listening = TRUE]
  /\ UNCHANGED <<db, req>>

\* the process is stopped between requests and started again: the database
\* keeps its schema and its rows
Restart ==
  /\ \A r \in Slots : req[r].pc = "idle"
  /\ boot' = [boot EXCEPT !.stmts = 0, !.listening = FALSE]
  /\ UNCHANGED <<db, req>>

Creates == {"createTask", "createBookmark"}

\* INSERTs performed or still to be performed by the calls under way
RowBudgetUsed ==
  taskSeq + bookmarkSeq
    + Cardinality({r \in Slots : req[r].pc \in {"received", "sent"} /\ req[r].proc \in Creates})

Free(r) == req[r].pc = "idle"

(***************************************************************************)
(* A request arrives: createContext builds the context from the            *)
(* Authorization header, the procedure parses the input and its resolver   *)
(* calls the domain function with ctx.token and the parsed fields.         *)
(* P: the procedures the client calls, W: the well-formed bodies it sends  *)
(***************************************************************************)
\* a resolver that prefers a token found in the input over the context's
RpcCallTokenFromInput(r, P, W) ==
  /\ Free(r)
  /\ boot.listening
  /\ \E proc \in P, header \in Headers :
       \E raw \in Bodies(proc, W) :
         /\ proc \in Creates => RowBudgetUsed < MaxRows
         /\ LET call == [IdleReq EXCEPT !.via = "rpc", !.proc = proc, !.header = header,
                                        !.raw = raw,
                                        !.token = IF "token" \in DOMAIN raw THEN raw.token
                                                  ELSE createContext(header)]
            IN IF ZodAccepts(proc, raw)
               THEN req' = [req EXCEPT ![r] = [call EXCEPT !.pc = "received",
                                                           !.args = ZodParse(proc, raw)]]
               ELSE req' = [req EXCEPT ![r] = [call EXCEPT !.pc = "done",
                                                           !.response = Rejected(ErrValidation)]]
  /\ UNCHANGED <<db, boot>>

RpcCall(r, P, W) ==
  /\ Free(r)
  /\ boot.listening
  /\ \E proc \in P, header \in Headers :
       \E raw \in Bodies(proc, W) :
         /\ proc \in Creates => RowBudgetUsed < MaxRows
         /\ LET call == [IdleReq EXCEPT !.via = "rpc", !.proc = proc, !.header = header,
                                        !.raw = raw, !.token = createContext(header)]
            IN IF ZodAccepts(proc, raw)
               THEN req' = [req EXCEPT ![r] = [call EXCEPT !.pc = "received",
                                                           !.args = ZodParse(proc, raw)]]
               ELSE req' = [req EXCEPT ![r] = [call EXCEPT !.pc = "done",
                                                           !.response = Rejected(ErrValidation)]]
  /\ UNCHANGED <<db, boot>>

\* the storage function is called: it reads the clock where its code does,
\* and calls pool.query
Issue(r, proc, principal, args) ==
  \E t \in (IF proc = "createTask" THEN {now, now + 1} ELSE {now}) :
    /\ now' = t
    /\ req' = [req EXCEPT ![r].pc = "sent", ![r].principal = principal, ![r].args = args,
                          ![r].issuedAt = IF proc = "createTask" THEN t ELSE 0,
                          ![r].stmts = req[r].stmts + 1]
    /\ UNCHANGED boot

\* a domain function that calls the storage function without awaiting the
\* outcome of authenticateUserToken
AuthenticateNotAwaited(r) ==
  /\ req[r].pc = "received"
  /\ Issue(r, req[r].proc, authenticateUserToken(req[r].token),
           DomainArgs(req[r].proc, req[r].args, DemoUser))
  /\ UNCHANGED <<tasks, bookmarks, taskSeq, bookmarkSeq>>

\* an auth service that keeps a session: once a call has created a row, the
\* principal of that call is handed to every later call
AuthenticateWithSession(r) ==
  /\ req[r].pc = "received"
  /\ LET user == IF taskSeq + bookmarkSeq > 0
                 THEN [ok |-> TRUE, username |-> DemoUser, error |-> ""]
                 ELSE authenticateUserToken(req[r].token)
     IN IF user.ok
        THEN Issue(r, req[r].proc, user, DomainArgs(req[r].proc, req[r].args, user.username))
        ELSE Settle(r, Rejected(user.error)) /\ UNCHANGED now
  /\ UNCHANGED <<tasks, bookmarks, taskSeq, bookmarkSeq>>

\* the domain function resumes after `await authSvc.authenticateUserToken(token)`
Authenticate(r) ==
  /\ req[r].pc = "received"
  /\ LET user == authenticateUserToken(req[r].token)
     IN IF user.ok
        THEN Issue(r, req[r].proc, user, DomainArgs(req[r].proc, req[r].args, user.username))
        ELSE Settle(r, Rejected(user.error)) /\ UNCHANGED now
  /\ UNCHANGED <<tasks, bookmarks, taskSeq, bookmarkSeq>>

\* a storage function is called directly, as by a test of services/db.ts
DbCall(r, P, W) ==
  /\ Free(r)
  /\ boot.stmts = Len(SchemaObjects)
  /\ \E proc \in P, username \in Usernames :
       \E input \in W[proc] :
         /\ proc \in Creates => RowBudgetUsed < MaxRows
         /\ \E t \in (IF proc = "createTask" THEN {now, now + 1} ELSE {now}) :
              /\ now' = t
              /\ req' = [req EXCEPT ![r] =
                           [IdleReq EXCEPT !.pc = "sent", !.via = "db", !.proc = proc,
                                           !.args = DomainArgs(proc, input, username),
                                           !.issuedAt = IF proc = "createTask" THEN t ELSE 0,
                                           !.stmts = 1]]
  /\ UNCHANGED <<tasks, bookmarks, taskSeq, bookmarkSeq, boot>>

\* the response of a settled call leaves the server
Return(r) ==
  /\ req[r].pc = "done"
  /\ req' = [req EXCEPT ![r] = IdleReq]
  /\ UNCHANGED <<db, boot>>

\* PostgreSQL executes the statement in flight
TaskStatement(r) ==
  \/ getAllTasks(r)
  \/ getTaskById(r)
  \/ createTask(r)
  \/ updateTask(r)
  \/ deleteTask(r)

BookmarkStatement(r) ==
  \/ getAllBookmarks(r)
  \/ getBookmarkById(r)
  \/ createBookmark(r)
  \/ updateBookmark(r)
  \/ deleteBookmark(r)

\* the server once start() has run: the schema is created and the listener
\* is open, on a database without rows
Init ==
  /\ tasks = {}
  /\ bookmarks = {}
  /\ taskSeq = 0
  /\ bookmarkSeq = 0
  /\ now = 0
  /\ req = [r \in Slots |-> IdleReq]
  /\ boot = Started

\* the server behind its HTTP endpoint, all ten procedures
Next ==
  \E r \in Sequential :
    \/ RpcCall(r, Procs, SampleBodies)
    \/ Authenticate(r)
    \/ TaskStatement(r)
    \/ BookmarkStatement(r)
    \/ Return(r)

Spec == Init /\ [][Next]_vars

\* the task procedures, every body of the input sets
NextTasks ==
  \E r \in Sequential :
    RpcCall(r, TaskProcs, AllBodies) \/ Authenticate(r) \/ TaskStatement(r) \/ Return(r)

SpecTasks == Init /\ [][NextTasks]_vars

\* the bookmark procedures, every body of the input sets
NextBookmarks ==
  \E r \in Sequential :
    RpcCall(r, BookmarkProcs, AllBodies) \/ Authenticate(r) \/ BookmarkStatement(r) \/ Return(r)

SpecBookmarks == Init /\ [][NextBookmarks]_vars

\* the storage service alone, called for any user name
NextDb ==
  \E r \in Sequential :
    DbCall(r, Procs, SampleBodies) \/ TaskStatement(r) \/ BookmarkStatement(r) \/ Return(r)

SpecDb == Init /\ [][NextDb]_vars

\* the task procedures over a tasks table that other principals write as
\* well, through the storage service
NextTasksShared ==
  \E r \in Sequential :
    \/ DbCall(r, TaskProcs, SampleBodies)
    \/ RpcCall(r, TaskProcs, SampleBodies)
    \/ Authenticate(r)
    \/ TaskStatement(r)
    \/ Return(r)

SpecTasksShared == Init /\ [][NextTasksShared]_vars

\* bodies of calls that meet on the first task
RaceBodies ==
  [proc \in Procs |->
     CASE proc = "updateTask" -> {[id |-> NatToString(1), completed |-> TRUE],
                                  [id |-> NatToString(1), title |-> <<"b">>]}
       [] proc \in {"taskById", "deleteTask"} -> {[id |-> NatToString(1)]}
       [] OTHER -> Sample(proc)]

\* the task procedures called by two clients at once: the calls interleave at
\* their suspension points, the await of authenticateUserToken and the
\* database round trip
NextRace ==
  \E r \in Concurrent :
    RpcCall(r, TaskProcs, RaceBodies) \/ Authenticate(r) \/ TaskStatement(r) \/ Return(r)

SpecRace == Init /\ [][NextRace]_vars

(***************************************************************************)
(* The auth service alone                                                  *)
(***************************************************************************)
TokenChars == {"d", "e", "m", "o", "-", "t", "k", "n", "D", " "}

\* the accepted literal and strings near it: its prefixes (the empty string
\* among them), its one-character substitutions, extensions at either end,
\* and the header value it travels in
Tokens ==
  {SubSeq(DemoToken, 1, n) : n \in 0..Len(DemoToken)}
    \cup {[DemoToken EXCEPT ![i] = c] : i \in 1..Len(DemoToken), c \in TokenChars}
    \cup {DemoToken \o <<c>> : c \in TokenChars}
    \cup {<<c>> \o DemoToken : c \in TokenChars}
    \cup {BearerPrefix \o DemoToken}

\* authenticateUserToken is called directly, as by a test of services/auth.ts
AuthCall(r) ==
  /\ Free(r)
  /\ \E token \in Tokens :
       LET user == authenticateUserToken(token)
       IN req' = [req EXCEPT ![r] =
                    [IdleReq EXCEPT !.pc = "done", !.via = "auth", !.token = token,
                                    !.principal = user,
                                    !.result = IF user.ok
                                               THEN Resolved("one", <<[username |-> user.username]>>)
                                               ELSE Rejected(user.error)]]
  /\ UNCHANGED <<db, boot>>

NextAuth == \E r \in Sequential : AuthCall(r) \/ Return(r)

SpecAuth == Init /\ [][NextAuth]_vars

\* the server from the start of its process on a database without schema,
\* stopped and started again between requests
InitStartup ==
  /\ tasks = {}
  /\ bookmarks = {}
  /\ taskSeq = 0
  /\ bookmarkSeq = 0
  /\ now = 0
  /\ req = [r \in Slots |-> IdleReq]
  /\ boot = NotStarted

NextStartup ==
  \/ InitDbStep
  \/ Listen
  \/ Restart
  \/ \E r \in Sequential :
       \/ RpcCall(r, Procs, SampleBodies)
       \/ Authenticate(r)
       \/ TaskStatement(r)
       \/ BookmarkStatement(r)
       \/ Return(r)

SpecStartup == InitStartup /\ [][NextStartup]_vars

(***************************************************************************)
(* The request context and the auth service                                *)
(***************************************************************************)
\* values of the Authorization header: a token with the Bearer scheme,
\* without a scheme, and with the scheme in the middle
HeaderValues ==
  {BearerPrefix \o token : token \in Tokens}
    \cup Tokens
    \cup {SubSeq(DemoToken, 1, n) \o BearerPrefix \o SubSeq(DemoToken, n + 1, Len(DemoToken)) :
            n \in 1..Len(DemoToken)}

\* a request's context is built and its token authenticated, as every domain
\* function does first
ContextCall(r) ==
  /\ Free(r)
  /\ \E header \in {NoHeader} \cup {Header(v) : v \in HeaderValues} :
       LET token == createContext(header)
           user == authenticateUserToken(token)
       IN req' = [req EXCEPT ![r] =
                    [IdleReq EXCEPT !.pc = "done", !.via = "ctx", !.header = header,
                                    !.token = token, !.principal = user,
                                    !.result = IF user.ok
                                               THEN Resolved("one", <<[username |-> user.username]>>)
                                               ELSE Rejected(user.error)]]
  /\ UNCHANGED <<db, boot>>

NextContext == \E r \in Sequential : ContextCall(r) \/ Return(r)

SpecContext == Init /\ [][NextContext]_vars

(***************************************************************************)
(* Properties                                                              *)
(***************************************************************************)
Tables == <<tasks, bookmarks>>

\* C1: authenticateUserToken(token) resolves, with the principal
\* {username: 'demo-user'}, if and only if token is the literal 'demo-token';
\* for every other string, the empty one included, it rejects with an
\* Unauthenticated error.
C1_AuthIffDemoToken ==
  \A r \in Slots :
    (req[r].via = "auth" /\ req[r].pc = "done") =>
      /\ req[r].result.ok <=> (req[r].token = DemoToken)
      /\ req[r].result.ok => req[r].result.rows = <<[username |-> "demo-user"]>>
      /\ ~req[r].result.ok => IsUnauthenticated(req[r].result.error)

C1_Witness ==
  \E r \in Slots :
    /\ req[r].via = "auth" /\ req[r].pc = "done"
    /\ req[r].token = DemoToken
    /\ req[r].result = Resolved("one", <<[username |-> "demo-user"]>>)

\* a call that reached the domain function: its input passed validation
InDomain(r) == req[r].via = "rpc" /\ req[r].response.error /= ErrValidation

C2_Inv ==
  \A r \in Slots :
    /\ req[r].stmts > 0 => req[r].principal.ok
    /\ (InDomain(r) /\ req[r].token /= DemoToken) =>
         /\ req[r].stmts = 0
         /\ req[r].pc /= "sent"
         /\ req[r].pc = "done" =>
              ~req[r].response.ok /\ IsUnauthenticated(req[r].response.error)

C2_Step ==
  \A r \in Slots :
    (req[r].pc = "received" /\ req[r].token /= DemoToken /\ req'[r] /= req[r]) =>
      /\ Tables' = Tables
      /\ req'[r].pc = "done"

\* C2: for each of the ten domain operations the token is authenticated
\* before any storage statement is issued: a call whose token fails
\* authentication fails with Unauthenticated, executes no statement and leaves
\* the tasks and bookmarks tables unchanged.
C2_AuthBeforeStorage == [](C2_Inv) /\ [][C2_Step]_vars

C2_Witness ==
  \E r \in Slots :
    /\ req[r].via = "rpc" /\ req[r].pc = "done" /\ req[r].proc = "deleteTask"
    /\ req[r].token \notin {<<>>, DemoToken}
    /\ IsUnauthenticated(req[r].response.error)
    /\ req[r].stmts = 0
    /\ \E row \in tasks : NatToString(row.id) = req[r].args.id
    /\ bookmarks /= {}

\* the set of records a resolved list or single-record value holds
Records(res) == {res.rows[i] : i \in DOMAIN res.rows}

Done(r, via, proc) == req[r].pc = "done" /\ req[r].via = via /\ req[r].proc = proc

C3_Reads ==
  \A r \in Slots :
    ((Done(r, "db", "allBookmarks") \/ Done(r, "db", "bookmarkById")) /\ req[r].result.ok) =>
      \A b \in Records(req[r].result) : b.createdBy = req[r].args.username

C3_Writes ==
  \A r \in Slots :
    ((Sent(r, "updateBookmark") \/ Sent(r, "deleteBookmark")) /\ req'[r].pc = "done") =>
      \A row \in bookmarks : row.created_by /= req[r].args.username => row \in bookmarks'

\* C3: bookmark ownership scoping: getAllBookmarks and getBookmarkById called
\* for user B return only bookmarks whose owner is B, and updateBookmark and
\* deleteBookmark called for B neither modify nor remove a bookmark owned by
\* another user.
C3_OwnershipScoping == [](C3_Reads) /\ [][C3_Writes]_vars

C3_Witness ==
  \E r \in Slots :
    /\ Done(r, "db", "deleteBookmark") /\ req[r].result.ok
    /\ \E row \in bookmarks :
         NatToString(row.id) = req[r].args.id /\ row.created_by /= req[r].args.username
    /\ \E row \in bookmarks : row.created_by = req[r].args.username

\* no bookmark has the id and the owner the call names
NoOwnedBookmark(id, username) ==
  \A row \in bookmarks : ~(NatToString(row.id) = id /\ row.created_by = username)

\* C4: updateBookmark and deleteBookmark fail with a NotFound error whenever
\* zero rows are affected (the id names no bookmark, or one owned by another
\* principal), and the mutation then does not return the sentinel.
C4_NotFoundOnZeroRows ==
  [][\A r \in Slots :
       ( /\ Sent(r, "updateBookmark") \/ Sent(r, "deleteBookmark")
         /\ req[r].via = "rpc"
         /\ IsIntegerText(req[r].args.id)
         /\ NoOwnedBookmark(req[r].args.id, req[r].args.username)
         /\ req'[r].pc = "done" ) =>
         /\ ~req'[r].response.ok
         /\ IsNotFound(req'[r].response.error)]_vars

\* the id names no row of the tasks table
NoTaskNamed(id) == \A row \in tasks : NatToString(row.id) /= id

\* C5: updateTask and deleteTask called with an id that names no existing
\* task fail with a NotFound error and leave the tasks table unchanged.
C5_NotFoundOnMissingTask ==
  [][\A r \in Slots :
       ( /\ Sent(r, "updateTask") \/ Sent(r, "deleteTask")
         /\ NoTaskNamed(req[r].args.id)
         /\ req'[r].pc = "done" ) =>
         /\ ~req'[r].result.ok
         /\ IsNotFound(req'[r].result.error)
         /\ tasks' = tasks]_vars

\* C6: partial task update: for an existing task and any subset S of {title,
\* description, completed} supplied to updateTask, after the call exactly the
\* fields in S hold the supplied values, every field not in S and the id,
\* owner and creation timestamp are unchanged, and no other task row changes.
C6_PartialUpdate ==
  [][\A r \in Slots :
       ( /\ Sent(r, "updateTask") /\ req[r].via = "rpc"
         /\ req'[r].pc = "done" ) =>
         \A old \in tasks :
           IF NatToString(old.id) = req[r].raw.id
           THEN \E new \in tasks' :
                  /\ new.id = old.id
                  /\ new.created_by = old.created_by
                  /\ new.created_at = old.created_at
                  /\ \A f \in {"title", "description", "completed"} :
                       new[f] = IF f \in DOMAIN req[r].raw THEN req[r].raw[f] ELSE old[f]
                  /\ tasks' \ {new} = tasks \ {old}
           ELSE old \in tasks']_vars

C6_Witness ==
  \E r \in Slots :
    /\ Done(r, "rpc", "updateTask") /\ req[r].response = Resolved("OK", <<>>)
    /\ DOMAIN req[r].raw = {"id", "completed"}
    /\ Cardinality(tasks) = 2
    /\ \E row \in tasks :
         /\ NatToString(row.id) = req[r].raw.id
         /\ row.completed = req[r].raw.completed
         /\ row.title = <<"b">> /\ row.description = <<"e">>

\* the entries getAllTasks returns for a tasks table
AllTaskEntries(table) == {mapToExternal(row) : row \in table}

\* C7: after a successful createTask with title T and description D by an
\* authenticated caller, getAllTasks holds exactly one entry more than before:
\* it has title T, description D, completed = false and the authenticated
\* principal as owner, and the entries that existed before are unchanged.
C7_CreateAddsOne ==
  [][\A r \in Slots :
       ( /\ Sent(r, "createTask") /\ req[r].via = "rpc"
         /\ req'[r].pc = "done" /\ req'[r].response.ok ) =>
         LET before == AllTaskEntries(tasks)
             after == AllTaskEntries(tasks')
         IN /\ before \subseteq after
            /\ Cardinality(after) = Cardinality(before) + 1
            /\ Cardinality(tasks') = Cardinality(tasks) + 1
            /\ \A e \in after \ before :
                 /\ e.title = req[r].raw.title
                 /\ e.description = req[r].raw.description
                 /\ e.completed = FALSE
                 /\ e.createdBy = req[r].principal.username
                 /\ req[r].principal.ok]_vars

C7_Witness ==
  \E r \in Slots :
    /\ Done(r, "rpc", "createTask") /\ req[r].response = Resolved("OK", <<>>)
    /\ Cardinality(tasks) = 2
    /\ \E row \in tasks :
         /\ row.id = taskSeq
         /\ row.title = req[r].raw.title /\ row.title = <<"b">>
         /\ row.created_by = "demo-user"
         /\ ~row.completed

\* C8: createTask and createBookmark set the new row's owner to the principal
\* resolved from the token; an owner value supplied in the procedure input has
\* no effect on the stored row.
C8_OwnerFromToken ==
  [][\A r \in Slots :
       ( /\ Sent(r, "createTask") \/ Sent(r, "createBookmark")
         /\ req[r].via = "rpc"
         /\ req'[r].pc = "done" ) =>
         /\ authenticateUserToken(req[r].token).ok
         /\ Cardinality((tasks' \ tasks) \cup (bookmarks' \ bookmarks)) = 1
         /\ \A row \in (tasks' \ tasks) \cup (bookmarks' \ bookmarks) :
              row.created_by = authenticateUserToken(req[r].token).username]_vars

C8_Witness ==
  \E r \in Slots :
    /\ Done(r, "rpc", "createBookmark") /\ req[r].response = Resolved("OK", <<>>)
    /\ "owner" \in DOMAIN req[r].raw /\ req[r].raw.owner = "mallory"
    /\ \E row \in bookmarks : row.id = bookmarkSeq /\ row.created_by = "demo-user"
    /\ \E row \in tasks : row.created_by = "demo-user"

\* the caller's bookmarks
OwnedBy(username) == {row \in bookmarks : row.created_by = username}

\* an allBookmarks call that resolved, with exactly the keys K in its input
ListedWith(r, K) ==
  /\ Done(r, "rpc", "allBookmarks") /\ req[r].response.ok
  /\ DOMAIN req[r].raw = K

HasTag(row, t) == \E i \in DOMAIN row.tags : row.tags[i] = t

\* C9 (as claimed): for every tag string t supplied to getAllBookmarks, the
\* result is exactly the set of the caller's bookmarks whose tag collection
\* contains t.
C9_TagFilterEveryString ==
  \A r \in Slots :
    ListedWith(r, {"tag"}) =>
      Records(req[r].response) =
        {mapBookmark(row) : row \in {b \in OwnedBy(req[r].principal.username) : HasTag(b, req[r].raw.tag)}}

\* C9 (amended): for every non-empty tag string t supplied to getAllBookmarks
\* the result is exactly the set of the caller's bookmarks whose tag
\* collection contains t; the empty string is no filter and returns all of
\* the caller's bookmarks.
C9_TagFilterNonEmpty ==
  \A r \in Slots :
    ListedWith(r, {"tag"}) =>
      /\ Len(req[r].response.rows) = Cardinality(Records(req[r].response))
      /\ Records(req[r].response) =
           {mapBookmark(row) :
              row \in {b \in OwnedBy(req[r].principal.username) :
                         req[r].raw.tag = "" \/ HasTag(b, req[r].raw.tag)}}

C9_Witness ==
  \E r \in Slots :
    /\ ListedWith(r, {"tag"}) /\ req[r].raw.tag = "y"
    /\ Len(req[r].response.rows) = 1
    /\ \E row \in bookmarks : row.created_by = "demo-user" /\ ~HasTag(row, "y")

\* C10: for every query string q supplied to getAllBookmarks, the result is
\* exactly the set of the caller's bookmarks whose title or URL contains q as
\* a literal substring, compared case-insensitively.
C10_LiteralSubstring ==
  \A r \in Slots :
    ListedWith(r, {"query"}) =>
      Records(req[r].response) =
        {mapBookmark(row) :
           row \in {b \in OwnedBy(req[r].principal.username) :
                      \/ Contains(LowerStr(b.title), LowerStr(req[r].raw.query))
                      \/ Contains(LowerStr(b.url), LowerStr(req[r].raw.query))}}


\* a create call that resolved, with the record the domain function returned
Created(r, proc) == Done(r, "rpc", proc) /\ req[r].result.ok

\* the fields of a returned record that the input does not hold
Added(r) == (DOMAIN req[r].result.rows[1]) \ (DOMAIN ZodParse(req[r].proc, req[r].raw))

C11_FetchEqualsCreated(r) ==
  LET rec == req[r].result.rows[1]
  IN /\ Created(r, "createTask") =>
          /\ rec.title = req[r].raw.title
          /\ rec.description = req[r].raw.description
          /\ SelectTaskById(tasks, rec.id) = Resolved("one", <<rec>>)
     /\ Created(r, "createBookmark") =>
          /\ rec.title = req[r].raw.title
          /\ rec.url = req[r].raw.url
          /\ rec.tags = req[r].raw.tags
          /\ SelectBookmarkById([id |-> rec.id, username |-> req[r].principal.username])
               = Resolved("one", <<rec>>)

\* C11 (as claimed): a successful create immediately followed by fetch-by-id
\* of the created row by the same principal returns a record equal to the
\* input in every caller-supplied field and equal to the record create
\* returned, which differs from the input only by id, owner and timestamp.
C11_RoundTripOnlyIdOwnerTime ==
  \A r \in Slots :
    /\ C11_FetchEqualsCreated(r)
    /\ (Created(r, "createTask") \/ Created(r, "createBookmark")) =>
         Added(r) \subseteq {"id", "createdBy", "createdAt"}

\* C11 (amended): as claimed, except that the record of a task also differs
\* from the input by the completed flag, which holds its default false.
C11_RoundTrip ==
  \A r \in Slots :
    /\ C11_FetchEqualsCreated(r)
    /\ Created(r, "createTask") =>
         /\ Added(r) = {"id", "createdBy", "createdAt", "completed"}
         /\ req[r].result.rows[1].completed = FALSE
    /\ Created(r, "createBookmark") => Added(r) = {"id", "createdBy", "createdAt"}

C11_Witness ==
  \E r \in Slots :
    /\ Created(r, "createTask")
    /\ tasks /= {} /\ bookmarks /= {}
    /\ SelectTaskById(tasks, req[r].result.rows[1].id) = Resolved("one", <<req[r].result.rows[1]>>)
    /\ req[r].result.rows[1].description = <<"d">>


\* C12: every mutation procedure answers the sentinel 'OK' when and only when
\* the underlying domain operation succeeded, and never the mutated entity;
\* every query procedure answers the domain result unchanged.
C12_SentinelIffSuccess ==
  \A r \in Slots :
    (req[r].via = "rpc" /\ req[r].pc = "done") =>
      /\ req[r].proc \in Mutations =>
           /\ req[r].response = Resolved("OK", <<>>) <=> req[r].result.ok
           /\ req[r].response.rows = <<>>
           /\ req[r].response.ok => req[r].response.shape = "OK"
      /\ (req[r].proc \in Queries /\ InDomain(r)) => req[r].response = req[r].result

C12_Witness ==
  \E r \in Slots :
    /\ Done(r, "rpc", "createBookmark")
    /\ req[r].result.shape = "one"
    /\ req[r].response = Resolved("OK", <<>>)

\* a call whose input lacks a key its procedure's shape requires
Malformed(r) ==
  /\ req[r].via = "rpc"
  /\ \E k \in Required(req[r].proc) : k \notin DOMAIN req[r].raw

C13_Inv ==
  \A r \in Slots :
    Malformed(r) =>
      /\ req[r].pc = "done"
      /\ req[r].response = Rejected(ErrValidation)
      /\ req[r].result = Pending
      /\ req[r].principal = NoPrincipal
      /\ req[r].stmts = 0

C13_Step ==
  \A r \in Slots :
    (Malformed(r) \/ Malformed(r)') => Tables' = Tables

\* C13: a call with malformed input is rejected with a Validation error
\* before the domain function is invoked: whatever its token, no
\* authentication outcome is produced, no storage statement is issued and
\* both tables are unchanged.
C13_ValidationFirst == [](C13_Inv) /\ [][C13_Step]_vars

C13_Witness ==
  \E r \in Slots :
    /\ Malformed(r)
    /\ req[r].proc = "deleteTask"
    /\ req[r].token = DemoToken
    /\ req[r].response = Rejected(ErrValidation)
    /\ tasks /= {}

\* C14: the token is taken from the request's context only: the
\* authentication outcome and the acting principal of a call are those of
\* the token in its Authorization header, whatever token or owner key its
\* input carries, so two calls with the same header fare alike.
C14_TokenFromContextOnly ==
  \A r \in Slots :
    (req[r].via = "rpc" /\ req[r].pc \in {"sent", "done"} /\ ~Malformed(r)) =>
      LET user == authenticateUserToken(createContext(req[r].header))
      IN IF user.ok
         THEN req[r].principal = user
         ELSE /\ req[r].principal = NoPrincipal
              /\ req[r].pc = "done"
              /\ req[r].result = Rejected(user.error)
              /\ req[r].response = Rejected(user.error)

C14_Witness ==
  \E r \in Slots :
    /\ Done(r, "rpc", "createTask")
    /\ req[r].header = NoHeader
    /\ "token" \in DOMAIN req[r].raw /\ req[r].raw.token = DemoToken
    /\ "owner" \in DOMAIN req[r].raw
    /\ req[r].response = Rejected(ErrNoToken)


\* C15: task reads are not owner-scoped: getAllTasks called by an
\* authenticated caller returns every row of the tasks table whoever owns it,
\* and getTaskById returns the task with the given id whoever owns it.
C15_TaskReadsUnscoped ==
  \A r \in Slots :
    /\ (Done(r, "rpc", "allTasks") /\ req[r].principal.ok) =>
         /\ req[r].result.ok
         /\ Records(req[r].result) = AllTaskEntries(tasks)
         /\ Len(req[r].result.rows) = Cardinality(tasks)
    /\ (Done(r, "rpc", "taskById") /\ req[r].principal.ok) =>
         \A row \in tasks :
           NatToString(row.id) = req[r].raw.id =>
             req[r].result = Resolved("one", <<mapToExternal(row)>>)

C15_Witness ==
  \E r \in Slots :
    /\ Done(r, "rpc", "allTasks")
    /\ req[r].principal.username = DemoUser
    /\ \E e \in Records(req[r].result) : e.createdBy = "other-user"
    /\ \E e \in Records(req[r].result) : e.createdBy = DemoUser


\* the row of the table after the step that has the identity of row
SameIdentity(row, after) ==
  {row2 \in after : row2.id = row.id}
    = {row2 \in after : /\ row2.id = row.id
                        /\ row2.created_by = row.created_by
                        /\ row2.created_at = row.created_at}

C16_Step ==
  /\ \A row \in tasks : SameIdentity(row, tasks')
  /\ \A row \in bookmarks : SameIdentity(row, bookmarks')
  /\ \A r \in Slots :
       /\ (Sent(r, "updateTask") /\ req'[r].pc = "done") =>
            /\ {row.id : row \in tasks'} = {row.id : row \in tasks}
            /\ Cardinality(tasks') = Cardinality(tasks)
       /\ (Sent(r, "updateBookmark") /\ req'[r].pc = "done") =>
            /\ {row.id : row \in bookmarks'} = {row.id : row \in bookmarks}
            /\ Cardinality(bookmarks') = Cardinality(bookmarks)

\* C16: the id, the owner and the creation timestamp of a task or bookmark
\* row never change once the row is created: an update keeps every row and
\* changes nothing but title, description and completed of a task, or title,
\* URL and tags of a bookmark.
C16_IdentityImmutable == [][C16_Step]_vars

C16_Witness ==
  \E r \in Slots :
    /\ Done(r, "db", "updateBookmark")
    /\ req[r].result.shape = "one"
    /\ \E row \in bookmarks :
         /\ NatToString(row.id) = req[r].result.rows[1].id
         /\ row.created_by = req[r].args.username
         /\ row.title = req[r].args.title
    /\ \E row \in bookmarks : row.created_by /= req[r].args.username

\* the principals authenticateUserToken can resolve with
Principals == {authenticateUserToken(token).username : token \in {t \in Tokens : authenticateUserToken(t).ok}}

\* C17: in every reachable state every task row and every bookmark row has
\* exactly one owner, and that owner is a principal the auth service can
\* return.
C17_OwnersArePrincipals ==
  /\ \A row \in tasks : row.created_by \in Principals
  /\ \A row \in bookmarks : row.created_by \in Principals
  /\ Principals = {DemoUser}

C17_Witness ==
  /\ \E row \in tasks : row.created_by = DemoUser
  /\ \E row \in bookmarks : row.created_by = DemoUser
  /\ \E r \in Slots : Done(r, "rpc", "createBookmark") /\ "owner" \in DOMAIN req[r].raw

\* the errors a statement of the storage service fails with
StorageErrors == {ErrInvalidInt, ErrSyntax, ErrNoTask}

\* C18: errors are neither suppressed nor retried: when the storage
\* statement of a call fails, the domain call and the RPC call fail with that
\* error, no sentinel and no result is answered, and exactly one storage
\* statement was attempted.
C18_ErrorsPropagate ==
  \A r \in Slots :
    /\ req[r].stmts <= 1
    /\ (req[r].via = "rpc" /\ req[r].pc = "done" /\ req[r].stmts > 0 /\ ~req[r].result.ok) =>
         /\ req[r].result.error \in StorageErrors
         /\ req[r].response = Rejected(req[r].result.error)
         /\ req[r].stmts = 1

C18_Witness ==
  \E r \in Slots :
    /\ Done(r, "rpc", "deleteTask")
    /\ req[r].result = Rejected(ErrNoTask)
    /\ req[r].response = Rejected(ErrNoTask)
    /\ req[r].stmts = 1

\* C19: the query procedures allTasks, taskById, allBookmarks and
\* bookmarkById leave both tables unchanged, whether they succeed or fail.
C19_QueriesReadOnly ==
  [][\A r \in Slots :
       (req[r].proc \in Queries \/ req'[r].proc \in Queries) =>
         UNCHANGED <<tasks, bookmarks, taskSeq, bookmarkSeq>>]_vars

C19_Witness ==
  \E r \in Slots :
    /\ Done(r, "rpc", "taskById")
    /\ req[r].response.shape = "one"
    /\ tasks /= {} /\ bookmarks /= {}

\* the id was assigned by the tasks sequence and its row is gone
WasDeleted(id) ==
  /\ IsIntegerText(id)
  /\ DigitsToNat(id) \in 1..taskSeq
  /\ RowsWithId(tasks, id) = {}

C20_Delete(r) ==
  (Sent(r, "deleteTask") /\ req'[r].pc = "done" /\ req'[r].result.ok) =>
    /\ SelectTaskById(tasks', req[r].args.id) = Resolved("undefined", <<>>)
    /\ \A e \in AllTaskEntries(tasks') : e.id /= req[r].args.id
    /\ \A row \in tasks : NatToString(row.id) /= req[r].args.id => row \in tasks'
    /\ tasks' \subseteq tasks
    /\ Cardinality(tasks') = Cardinality(tasks) - 1

C20_Later(r) ==
  ( /\ req[r].pc = "sent" /\ req[r].proc \in {"deleteTask", "updateTask"}
    /\ WasDeleted(req[r].args.id)
    /\ req'[r].pc = "done" ) =>
    /\ ~req'[r].result.ok
    /\ IsNotFound(req'[r].result.error)
    /\ tasks' = tasks

C20_OnlyByDelete ==
  (\E row \in tasks : row.id \notin {row2.id : row2 \in tasks'}) =>
    \E r \in Slots :
      /\ Sent(r, "deleteTask")
      /\ \A row \in tasks \ tasks' : NatToString(row.id) = req[r].args.id

\* C20: deletion is hard: after a successful deleteTask(id), getTaskById(id)
\* returns absent, getAllTasks no longer holds the task, every other task is
\* unchanged, and a later deleteTask(id) or updateTask(id, ...) fails with
\* NotFound; a task row disappears only through a deleteTask call.
C20_HardDelete ==
  [][/\ \A r \in Slots : C20_Delete(r) /\ C20_Later(r)
     /\ C20_OnlyByDelete]_vars

\* C21: fetch-by-id of a missing record is not an error: taskById with an id
\* that names no task returns absent, and bookmarkById returns absent when
\* the id names no bookmark or names a bookmark of another principal; neither
\* call fails.
C21_MissingIsAbsent ==
  [][\A r \in Slots :
       /\ (Sent(r, "taskById") /\ NoTaskNamed(req[r].args.id) /\ req'[r].pc = "done") =>
            req'[r].result = Resolved("undefined", <<>>)
       /\ ( /\ Sent(r, "bookmarkById")
            /\ NoOwnedBookmark(req[r].args.id, req[r].args.username)
            /\ req'[r].pc = "done" ) =>
            req'[r].result = Resolved("null", <<>>)]_vars

\* C22: updateTask succeeds for every input of the declared shape
\* {id, title?, description?, completed?} whose id names an existing task,
\* the input that supplies the id alone included: it returns the sentinel,
\* and leaves the task unchanged when no optional field is supplied.
C22_UpdateAlwaysSucceeds ==
  [][\A r \in Slots :
       ( /\ Sent(r, "updateTask") /\ req[r].via = "rpc"
         /\ ~NoTaskNamed(req[r].args.id)
         /\ req'[r].pc = "done" ) =>
         /\ req'[r].response = Resolved("OK", <<>>)
         /\ DOMAIN req[r].args.updates = {} => tasks' = tasks]_vars

\* two calls of proc on the same id, by different requests
SameTarget(r, q, proc) ==
  /\ r /= q
  /\ req[r].via = "rpc" /\ req[q].via = "rpc"
  /\ req[r].proc = proc /\ req[q].proc = proc
  /\ req[r].stmts = 1 /\ req[q].stmts = 1
  /\ req[r].args.id = req[q].args.id

C23_Inv ==
  \A r, q \in Slots :
    (SameTarget(r, q, "deleteTask") /\ req[r].pc = "done" /\ req[q].pc = "done") =>
      ~(req[r].response.ok /\ req[q].response.ok)

C23_Step ==
  \A r, q \in Slots :
    /\ ( /\ SameTarget(r, q, "deleteTask") /\ req[r].pc = "sent" /\ req[q].pc = "sent"
         /\ ~NoTaskNamed(req[r].args.id)
         /\ req'[r].pc = "done" ) =>
         /\ req'[r].response = Resolved("OK", <<>>)
         /\ tasks' = tasks \ RowsWithId(tasks, req[r].args.id)
         /\ Cardinality(tasks') = Cardinality(tasks) - 1
         /\ req'[q] = req[q]
    /\ ( /\ SameTarget(r, q, "deleteTask") /\ req[r].pc = "sent"
         /\ req[q].pc = "done" /\ req[q].response.ok
         /\ req'[r].pc = "done" ) =>
         /\ req'[r].response = Rejected(ErrNoTask)
         /\ tasks' = tasks

\* C23: concurrent deletes are atomic: when two deleteTask calls for the
\* same existing id are in flight at the same time, the statement that runs
\* first returns the sentinel and removes the task, the other one then fails
\* with NotFound and removes nothing; never do both return the sentinel.
C23_ConcurrentDeletes == [](C23_Inv) /\ [][C23_Step]_vars

C23_Witness ==
  \E r, q \in Slots :
    /\ SameTarget(r, q, "deleteTask")
    /\ req[r].pc = "done" /\ req[r].response = Resolved("OK", <<>>)
    /\ req[q].pc = "done" /\ req[q].response = Rejected(ErrNoTask)
    /\ WasDeleted(req[r].args.id)

\* the two updates assign no common field, and each assigns one
Disjoint(r, q) ==
  /\ DOMAIN req[r].args.updates /= {}
  /\ DOMAIN req[q].args.updates /= {}
  /\ (DOMAIN req[r].args.updates) \cap (DOMAIN req[q].args.updates) = {}

\* the rows of the table the update of r names hold the values it supplied
Reflects(table, r) ==
  \A row \in RowsWithId(table, req[r].args.id) :
    \A k \in DOMAIN req[r].args.updates : row[k] = req[r].args.updates[k]

C24_Inv ==
  \A r, q \in Slots :
    ( /\ SameTarget(r, q, "updateTask") /\ Disjoint(r, q)
      /\ req[r].pc = "done" /\ req[r].response.ok
      /\ req[q].pc = "done" /\ req[q].response.ok ) =>
      /\ RowsWithId(tasks, req[r].args.id) /= {}
      /\ Reflects(tasks, r) /\ Reflects(tasks, q)

C24_Step ==
  \A r, q \in Slots :
    ( /\ SameTarget(r, q, "updateTask") /\ Disjoint(r, q)
      /\ req[r].pc = "sent"
      /\ req[q].pc = "sent" \/ (req[q].pc = "done" /\ req[q].response.ok)
      /\ ~NoTaskNamed(req[r].args.id)
      /\ req'[r].pc = "done" ) =>
      /\ req'[r].response = Resolved("OK", <<>>)
      /\ Reflects(tasks', r)
      /\ \A row \in RowsWithId(tasks, req[r].args.id) :
           \E row2 \in tasks' :
             \A k \in (DOMAIN row) \ (DOMAIN req[r].args.updates) : row2[k] = row[k]
      /\ req[q].pc = "done" => Reflects(tasks', q)

\* C24: no lost update on disjoint fields: when two updateTask calls on the
\* same existing task are in flight at the same time and supply disjoint
\* field sets, each succeeds and changes its own fields only, so that the
\* final row reflects both updates.
C24_NoLostUpdate == [](C24_Inv) /\ [][C24_Step]_vars

C24_Witness ==
  \E r, q \in Slots :
    /\ SameTarget(r, q, "updateTask") /\ Disjoint(r, q)
    /\ req[r].pc = "done" /\ req[r].response = Resolved("OK", <<>>)
    /\ req[q].pc = "done" /\ req[q].response = Resolved("OK", <<>>)
    /\ \E row \in tasks : row.completed /\ row.title = <<"b">> /\ row.description = <<"d">>

\* C25: authentication is stateless: whatever calls were made before, the
\* outcome of authenticating a call is that of the token the call carries: a
\* call with a missing or invalid token fails after earlier successful calls,
\* and a call with the valid token succeeds after earlier failed ones.
C25_StatelessAuth ==
  [][\A r \in Slots :
       (req[r].pc = "received" /\ req'[r].pc /= "received") =>
         LET user == authenticateUserToken(req[r].token)
         IN /\ user.ok => req'[r].pc = "sent" /\ req'[r].principal = user
            /\ ~user.ok => /\ req'[r].pc = "done"
                           /\ req'[r].principal = NoPrincipal
                           /\ req'[r].response = Rejected(user.error)
                           /\ IsUnauthenticated(user.error)]_vars

C25_Witness ==
  \E r \in Slots :
    /\ req[r].via = "rpc" /\ req[r].pc = "done"
    /\ req[r].token /= DemoToken
    /\ IsUnauthenticated(req[r].response.error)
    /\ taskSeq > 0 /\ bookmarkSeq > 0

\* C26: a request is authenticated only if its Authorization header is
\* exactly 'Bearer demo-token': with no header, with an empty bearer value or
\* with any other header value it fails with Unauthenticated.
C26_OnlyExactBearerHeader ==
  \A r \in Slots :
    (req[r].via = "ctx" /\ req[r].pc = "done") =>
      IF req[r].header = Header(BearerPrefix \o DemoToken)
      THEN req[r].principal.ok
      ELSE ~req[r].result.ok /\ IsUnauthenticated(req[r].result.error)

\* what getAllBookmarks returns to username for the tag alone
TagFiltered(username, t) == {b \in OwnedBy(username) : t = "" \/ HasTag(b, t)}

\* what getAllBookmarks returns to username for the query alone
QueryFiltered(username, q) ==
  {b \in OwnedBy(username) :
     \/ q = <<>>
     \/ ILike(b.title, <<"%">> \o q \o <<"%">>)
     \/ ILike(b.url, <<"%">> \o q \o <<"%">>)}

\* C27: given both a tag and a query, getAllBookmarks returns exactly the
\* intersection of the tag-filtered and the query-filtered results of the
\* same owner, the tag matched against the tag collection and the query
\* pattern against title and URL; given neither, it returns all of the
\* owner's bookmarks.
C27_BothFiltersIntersect ==
  \A r \in Slots :
    /\ ListedWith(r, {"tag", "query"}) =>
         /\ Records(req[r].response) =
              {mapBookmark(row) :
                 row \in TagFiltered(req[r].principal.username, req[r].raw.tag)
                           \cap QueryFiltered(req[r].principal.username, req[r].raw.query)}
         /\ Len(req[r].response.rows) = Cardinality(Records(req[r].response))
    /\ ListedWith(r, {}) =>
         /\ Records(req[r].response) =
              {mapBookmark(row) : row \in OwnedBy(req[r].principal.username)}
         /\ Len(req[r].response.rows) = Cardinality(bookmarks)

C27_Witness ==
  \E r \in Slots :
    /\ ListedWith(r, {"tag", "query"})
    /\ req[r].raw.tag = "y" /\ req[r].raw.query = <<"b">>
    /\ Len(req[r].response.rows) = 1
    /\ Cardinality(QueryFiltered(req[r].principal.username, req[r].raw.query)) = 2
    /\ Cardinality(TagFiltered(req[r].principal.username, req[r].raw.tag)) = 1

\* the records of a list are in descending order of id; the calls of one
\* client follow one another, so that the row with the greater id is the one
\* whose create call began after the other's had completed
LaterCreatedFirst(rows) ==
  \A i, j \in DOMAIN rows : i < j => DigitsToNat(rows[i].id) > DigitsToNat(rows[j].id)

\* C28: getAllTasks and getAllBookmarks return rows newest first: of two rows
\* where the create call of A completed before the create call of B began, B
\* stands before A in the list.
C28_NewestFirst ==
  \A r \in Slots :
    /\ (Done(r, "rpc", "allTasks") /\ req[r].response.ok) =>
         LaterCreatedFirst(req[r].response.rows)
    /\ (Done(r, "rpc", "allBookmarks") /\ req[r].response.ok) =>
         LaterCreatedFirst(req[r].response.rows)

\* the ids of the rows of a table
Ids(table) == {row.id : row \in table}

C29_Inv ==
  /\ \A a, b \in tasks : a.id = b.id => a = b
  /\ \A a, b \in bookmarks : a.id = b.id => a = b
  /\ Ids(tasks) \subseteq 1..taskSeq
  /\ Ids(bookmarks) \subseteq 1..bookmarkSeq

C29_Step ==
  /\ taskSeq' >= taskSeq /\ bookmarkSeq' >= bookmarkSeq
  /\ \A id \in Ids(tasks') \ Ids(tasks) : id > taskSeq
  /\ \A id \in Ids(bookmarks') \ Ids(bookmarks) : id > bookmarkSeq

\* C29: in every reachable state no two rows of a table share an id, and an
\* id once assigned is never assigned to a row created later, also after the
\* row that had it was deleted: a new row's id is greater than every id
\* assigned before.
C29_IdsUnique == [](C29_Inv) /\ [][C29_Step]_vars

C29_Witness ==
  /\ taskSeq = 2
  /\ Ids(tasks) = {2}
  /\ \E r \in Slots : Done(r, "rpc", "createTask") /\ req[r].result.ok

C30_Inv ==
  /\ boot.listening =>
       /\ boot.stmts = Len(SchemaObjects)
       /\ boot.schema = {SchemaObjects[i] : i \in DOMAIN SchemaObjects}
  /\ \A r \in Slots : req[r].pc /= "idle" => boot.listening

C30_Step ==
  boot' /= boot => UNCHANGED <<tasks, bookmarks, taskSeq, bookmarkSeq>>

\* C30: the HTTP listener starts to accept requests only after initDbSvc
\* has created both tables and their indexes, and running the initialization
\* again on a database that holds rows leaves every task row and every
\* bookmark row unchanged.
C30_StartupOrder == [](C30_Inv) /\ [][C30_Step]_vars

C30_Witness ==
  /\ boot.stmts = Len(SchemaObjects)
  /\ ~boot.listening
  /\ tasks /= {} /\ bookmarks /= {}

====
